---- MODULE Spec2Model ----
(***************************************************************************)
(* Model of the slot permutation engine (group_formations.py) and of the   *)
(* occupancy binning and the heatmap filters (roles.py).                   *)
(*                                                                         *)
(* A run is one call of an entry point: permute_xy, permute_xy_with_subs,  *)
(* process_xy, create_player_count_matrix or get_role_heatmaps.  Init      *)
(* draws the call's arguments; the loops of the code advance one           *)
(* iteration per step.                                                     *)
(***************************************************************************)
EXTENDS Integers, Sequences, FiniteSets, TLC

VARIABLES
    op,                    \* the entry point of this run
    fn,                    \* the function that is executing
    pc,                    \* position inside fn
    err,                   \* exception that ended the run ("" when none)
    formation,             \* argument formation
    shirt_to_index,        \* argument shirt_to_index: shirt numbers, position = tracking index
    position_to_shirt,     \* argument position_to_shirt: slot name -> shirt list
    default_permutations,  \* argument default_permutations ("None" or "def_perm")
    xy,                    \* rows of the argument xy the loop has read so far
    ordered_indices,       \* local ordered_indices: a list of ints, or one queue per slot
    result,                \* local result of the executing permutation
    base_indices,          \* per appended row, the base_index each slot was read at
    xy_objects_arg,        \* process_xy: xy_objects[half][team].xy as passed by the caller
    xy_objects,            \* process_xy: xy_objects[half][team].xy, rotated in place
    teamsheet,             \* process_xy: teamsheets[team].teamsheet.jID.tolist()
    match_title,           \* process_xy: argument match_title
    team,                  \* process_xy: argument team
    include_substitutes,   \* process_xy: argument include_substitutes
    half,                  \* process_xy: the half whose permutation is executing
    p_result,              \* process_xy: local result
    consulted,             \* process_xy: TRUE once match_title_to_players was subscripted
    xy_data,               \* create_player_count_matrix: argument xy_data, rows <<x, y>>
    pitch_xlim,            \* create_player_count_matrix: argument pitch_xlim
    pitch_ylim,            \* create_player_count_matrix: argument pitch_ylim
    bin_size,              \* create_player_count_matrix: argument bin_size
    count_matrix,          \* create_player_count_matrix: local count_matrix
    x_bins,                \* create_player_count_matrix: local x_bins
    y_bins,                \* create_player_count_matrix: local y_bins
    counted,               \* create_player_count_matrix: iterations of the loop of line 68
    B,                     \* get_role_heatmaps: argument B, one row per role
    grid_shape,            \* get_role_heatmaps: argument grid_shape
    threshold,             \* get_role_heatmaps: argument threshold
    top_k,                 \* get_role_heatmaps: argument top_k
    percentile,            \* get_role_heatmaps: argument percentile
    heatmaps,              \* get_role_heatmaps: local heatmaps
    ret                    \* the value the entry point returned

permute_vars == <<formation, shirt_to_index, position_to_shirt, default_permutations,
                  xy, ordered_indices, result, base_indices>>

process_args == <<xy_objects_arg, teamsheet, match_title, team, include_substitutes>>

process_vars == <<process_args, xy_objects, half, p_result, consulted>>

count_args == <<xy_data, pitch_xlim, pitch_ylim, bin_size>>

count_vars == <<count_args, count_matrix, x_bins, y_bins, counted>>

heat_args == <<B, grid_shape, threshold, top_k, percentile>>

heat_vars == <<heat_args, heatmaps>>

vars == <<op, fn, pc, err, permute_vars, process_vars, count_vars, heat_vars, ret>>

(***************************************************************************)
(* Bounds of the model.                                                    *)
(***************************************************************************)
MaxFrames == 2      \* rows of xy in a direct call of a permutation
MaxMissing == 2     \* players that are missing in the same frame
MaxHalfFrames == 1  \* frames of one half in a call of process_xy
MaxSamples == 2     \* rows of xy_data in a call of create_player_count_matrix
MaxRoles == 1       \* rows of B in a call of get_role_heatmaps
MaxTopK == 5        \* largest top_k in a call of get_role_heatmaps

(***************************************************************************)
(* Values of a frame.  None is Python's None, the marker the substitution  *)
(* loop tests with "is None".                                              *)
(***************************************************************************)
None == 0 - 1000000

\* NaN is the float the tracking arrays hold for a player who is off the pitch
NaN == 0 - 2000000

form_4231 == "4-2-3-1"
form_3322 == "3-3-2-2"
form_unsupported == "4-4-2"

DEFAULT_PERMUTATIONS_PER_FORMATION ==
    (form_4231 :> <<"TW", "LV", "IVL", "RV", "IVR", "DML", "DMR", "ORM", "OLM", "ZO", "STZ">>)
 @@ (form_3322 :> <<"TW", "IVL", "IVZ", "IVR", "DLM", "DMZ", "DRM", "HL", "HR", "STL", "STR">>)

\* the default_permutations argument the tests pass
def_perm == (form_4231 :> <<"TW", "LV", "RV">>)

\* default_permutations after "if default_permutations is None"
PermutationsOrDefault(dp) ==
    IF dp = "None" THEN DEFAULT_PERMUTATIONS_PER_FORMATION ELSE def_perm

(***************************************************************************)
(* Python list helpers.                                                    *)
(***************************************************************************)
\* s in list
Contains(list, s) == \E i \in 1..Len(list) : list[i] = s

\* list.index(s): the 0-based position of the first occurrence
ListIndex(list, s) ==
    (CHOOSE i \in 1..Len(list) :
        /\ list[i] = s
        /\ \A j \in 1..(i - 1) : list[j] # s) - 1

\* row[k] is defined for 0 <= k < len(row)
InRange(row, k) == k >= 0 /\ k < Len(row)

\* row[k], 0-based
At(row, k) == row[k + 1]

RECURSIVE Flatten(_)
\* the list built by extend()-ing every list of lists, in order
Flatten(lists) ==
    IF lists = <<>> THEN <<>> ELSE Head(lists) \o Flatten(Tail(lists))

(***************************************************************************)
(* permute_xy, lines 102-110: the slot order, the shirts in slot order     *)
(* and their tracking indices.  Each lookup can raise.                     *)
(***************************************************************************)
\* default_permutations[formation] raises KeyError
FormationKeyError(dp, f) == f \notin DOMAIN PermutationsOrDefault(dp)

positions_of(dp, f) == PermutationsOrDefault(dp)[f]

\* position_to_shirt[pos] raises KeyError for some canonical pos
PositionKeyError(dp, f, p2s) ==
    \E i \in 1..Len(positions_of(dp, f)) : positions_of(dp, f)[i] \notin DOMAIN p2s

\* ordered_shirts of permute_xy_with_subs: one shirt list per slot
ordered_shirts_subs(dp, f, p2s) ==
    [i \in 1..Len(positions_of(dp, f)) |-> p2s[positions_of(dp, f)[i]]]

\* ordered_shirts of permute_xy: the shirt lists of the slots, concatenated
ordered_shirts_fixed(dp, f, p2s) == Flatten(ordered_shirts_subs(dp, f, p2s))

\* shirt_to_index.index(s) raises ValueError for some listed shirt
ShirtValueError(dp, f, s2i, p2s) ==
    \E i \in 1..Len(ordered_shirts_fixed(dp, f, p2s)) :
        ~Contains(s2i, ordered_shirts_fixed(dp, f, p2s)[i])

\* the exception the set-up raises, "" when it completes
SetupError(dp, f, s2i, p2s) ==
    IF FormationKeyError(dp, f) THEN "KeyError"
    ELSE IF PositionKeyError(dp, f, p2s) THEN "KeyError"
    ELSE IF ShirtValueError(dp, f, s2i, p2s) THEN "ValueError"
    ELSE ""

\* a variant that takes the slot order itself for the tracking order
OrderedIndicesFixed_SlotOrder(dp, f, s2i, p2s) ==
    [i \in 1..Len(ordered_shirts_fixed(dp, f, p2s)) |-> i - 1]

\* ordered_indices of permute_xy
OrderedIndicesFixed(dp, f, s2i, p2s) ==
    [i \in 1..Len(ordered_shirts_fixed(dp, f, p2s)) |->
        ListIndex(s2i, ordered_shirts_fixed(dp, f, p2s)[i])]

\* ordered_indices of permute_xy_with_subs: a queue of tracking indices per slot
OrderedIndicesSubs(dp, f, s2i, p2s) ==
    [i \in 1..Len(ordered_shirts_subs(dp, f, p2s)) |->
        [j \in 1..Len(ordered_shirts_subs(dp, f, p2s)[i]) |->
            ListIndex(s2i, ordered_shirts_subs(dp, f, p2s)[i][j])]]

(***************************************************************************)
(* permute_xy, lines 114-118: one row.                                     *)
(***************************************************************************)
\* a variant that demands one value more than the pair
FixedRowIndexError_OneMore(row, oi) ==
    \E i \in 1..Len(oi) : ~InRange(row, oi[i] * 2 + 2)

\* row[oi[i] * 2] or row[oi[i] * 2 + 1] raises IndexError
FixedRowIndexError(row, oi) ==
    \E i \in 1..Len(oi) : ~InRange(row, oi[i] * 2 + 1)

\* a variant that appends the x coordinate twice
FixedNewRow_XTwice(row, oi) ==
    [p \in 1..(2 * Len(oi)) |-> At(row, oi[(p + 1) \div 2] * 2)]

\* new_row
FixedNewRow(row, oi) ==
    [p \in 1..(2 * Len(oi)) |->
        IF p % 2 = 1 THEN At(row, oi[(p + 1) \div 2] * 2)
                     ELSE At(row, oi[p \div 2] * 2 + 1)]

(***************************************************************************)
(* permute_xy_with_subs, lines 140-145: one slot of one row.  q is the     *)
(* slot's queue before the row; the record holds the queue afterwards, the *)
(* base_index the pair was read at, the pair, and "IndexError" when a      *)
(* subscript failed (queue[0] of an empty queue, or a row subscript).      *)
(***************************************************************************)
SlotStep(q, base, pair, e) == [q |-> q, base |-> base, pair |-> pair, err |-> e]

\* lines 144-145 with base_index = Head(q)
SubsReadPair(row, q) ==
    IF ~InRange(row, Head(q) * 2 + 1)
    THEN SlotStep(q, Head(q), <<>>, "IndexError")
    ELSE SlotStep(q, Head(q), <<At(row, Head(q) * 2), At(row, Head(q) * 2 + 1)>>, "")

\* a variant that reads the next candidate without removing the head
SubsSlot_KeepHead(row, q) ==
    IF q = <<>> THEN SlotStep(q, None, <<>>, "IndexError")
    ELSE IF ~InRange(row, Head(q) * 2)
         THEN SlotStep(q, Head(q), <<>>, "IndexError")
    ELSE IF At(row, Head(q) * 2) = None
         THEN IF Tail(q) = <<>>
              THEN SlotStep(Tail(q), Head(q), <<>>, "IndexError")
              ELSE [SubsReadPair(row, Tail(q)) EXCEPT !.q = q]
    ELSE SubsReadPair(row, q)

SubsSlot(row, q) ==
    IF q = <<>> THEN SlotStep(q, None, <<>>, "IndexError")                 \* line 140
    ELSE IF ~InRange(row, Head(q) * 2)
         THEN SlotStep(q, Head(q), <<>>, "IndexError")                   \* line 141
    ELSE IF At(row, Head(q) * 2) = None
         THEN IF Tail(q) = <<>>
              THEN SlotStep(Tail(q), Head(q), <<>>, "IndexError")        \* lines 142-143
              ELSE SubsReadPair(row, Tail(q))
    ELSE SubsReadPair(row, q)

RECURSIVE SubsRowFrom(_, _, _, _)
\* the loop of line 139 from slot i on; acc holds the queues, the new_row and
\* the base indices of the slots before i
SubsRowFrom(row, i, acc, n) ==
    IF i > n \/ acc.err # "" THEN acc
    ELSE LET s == SubsSlot(row, acc.queues[i])
         IN  SubsRowFrom(row, i + 1,
                 [queues  |-> [acc.queues EXCEPT ![i] = s.q],
                  new_row |-> acc.new_row \o s.pair,
                  bases   |-> Append(acc.bases, s.base),
                  err     |-> s.err], n)

\* lines 138-145 for one row
SubsRow(row, queues) ==
    SubsRowFrom(row, 1, [queues |-> queues, new_row |-> <<>>, bases |-> <<>>, err |-> ""],
                Len(queues))

(***************************************************************************)
(* Arguments of the direct calls of permute_xy and permute_xy_with_subs.   *)
(***************************************************************************)
\* coordinate in column c (0-based) of frame t (0-based): every valid sample is distinct
Val(t, c) == 100 * (t + 1) + c

\* a frame of len values in which the players of the set missing carry marker
Row(t, len, missing, marker) ==
    [c \in 1..len |-> IF ((c - 1) \div 2) \in missing THEN marker ELSE Val(t, c - 1)]

SubsetsUpTo(S, k) == {M \in SUBSET S : Cardinality(M) <= k}

\* the frames a caller may pass as row t for a teamsheet of n players: frames of
\* the declared length 2n, and frames one pair short, one value short and one
\* pair long in which no player or a single player is missing
Frames(t, n) ==
    {Row(t, 2 * n, M, None) : M \in SubsetsUpTo(0..(n - 1), MaxMissing)}
    \cup UNION {{Row(t, len, M, None) : M \in {{}} \cup {{k} : k \in 0..n}} :
                len \in {2 * n - 2, 2 * n - 1, 2 * n + 2}}

Formations == {form_4231, form_3322, form_unsupported}

\* shirt_to_index of the two tests
Teamsheets == {<<15, 1, 20>>, <<15, 1, 20, 77, 88>>}

SlotMaps ==
    { \* the two tests
      [LV |-> <<20>>, TW |-> <<1>>, RV |-> <<15>>],
      [LV |-> <<20>>, TW |-> <<1, 77, 88>>, RV |-> <<15>>],
      \* substitutes in two slots
      [LV |-> <<20, 77>>, TW |-> <<1, 88>>, RV |-> <<15>>],
      \* no entry for the canonical slot RV
      [LV |-> <<20>>, TW |-> <<1>>],
      \* an entry for ZO, which def_perm does not list
      [LV |-> <<20>>, TW |-> <<1>>, RV |-> <<15>>, ZO |-> <<77>>],
      \* shirt 99 is on no teamsheet
      [LV |-> <<20>>, TW |-> <<1>>, RV |-> <<99>>],
      \* shirt 20 in two slots
      [LV |-> <<20>>, TW |-> <<1, 20>>, RV |-> <<15>>],
      \* the substitute is the player of the last tracking index and leads the queue
      [LV |-> <<20>>, TW |-> <<88, 1>>, RV |-> <<15>>],
      \* a slot without a shirt
      [LV |-> <<>>, TW |-> <<1>>, RV |-> <<15>>] }

(***************************************************************************)
(* The roster tables, lines 46-77.                                         *)
(***************************************************************************)
match_bayern_koln_away ==
    [TW |-> <<27>>, LV |-> <<40>>, IVL |-> <<4>>, RV |-> <<5>>, IVR |-> <<2>>,
     DML |-> <<38, 8, 39>>, DMR |-> <<6>>, ORM |-> <<10, 40>>, OLM |-> <<11, 13>>,
     ZO |-> <<25, 22>>, STZ |-> <<7>>]
match_bayern_koln_home ==
    [TW |-> <<20>>, LV |-> <<14>>, IVL |-> <<24>>, RV |-> <<2, 17>>, IVR |-> <<4>>,
     DML |-> <<28>>, DMR |-> <<6>>, ORM |-> <<7, 25>>, OLM |-> <<37, 3>>, ZO |-> <<11>>,
     STZ |-> <<27, 29>>]
match_bochum_leverkusen_away ==
    [TW |-> <<1>>, LV |-> <<5>>, IVL |-> <<12>>, RV |-> <<30>>, IVR |-> <<4>>,
     DML |-> <<11, 23>>, DMR |-> <<25>>, OLM |-> <<19, 18>>, ZO |-> <<27>>, ORM |-> <<21>>,
     STZ |-> <<9>>]
match_dussel_regensburg_home ==
    [TW |-> <<33>>, LV |-> <<34>>, IVL |-> <<30>>, RV |-> <<25>>, IVR |-> <<3, 5>>,
     DML |-> <<29>>, DMR |-> <<31>>, OLM |-> <<7, 23>>, ZO |-> <<9, 19>>, ORM |-> <<11, 14>>,
     STZ |-> <<10, 28>>]
match_dussel_regensburg_away ==
    [TW |-> <<1>>, LV |-> <<20, 24>>, IVL |-> <<33>>, RV |-> <<11>>, IVR |-> <<23>>,
     DML |-> <<8>>, DMR |-> <<5>>, OLM |-> <<29, 30>>, ZO |-> <<19, 10>>, ORM |-> <<7, 26>>,
     STZ |-> <<18, 9>>]
match_dussel_hansa_home ==
    [TW |-> <<33>>, LV |-> <<8>>, IVL |-> <<5>>, RV |-> <<25>>, IVR |-> <<15>>,
     DML |-> <<4, 35>>, DMR |-> <<31>>, OLM |-> <<7, 46>>, ZO |-> <<23, 29>>, ORM |-> <<11, 14>>,
     STZ |-> <<9, 19>>]
match_dussel_hansa_guest ==
    [DLM |-> <<21>>, HR |-> <<29, 17>>, DRM |-> <<7>>, HL |-> <<14, 39>>, STR |-> <<19, 15>>,
     TW |-> <<1>>, STL |-> <<18, 9>>, IVZ |-> <<34>>, DMZ |-> <<6>>, IVR |-> <<27, 25>>,
     IVL |-> <<5>>]
match_dussel_nurnberg_home ==
    [TW |-> <<33>>, LV |-> <<8>>, IVL |-> <<5>>, RV |-> <<25>>, IVR |-> <<15>>,
     DML |-> <<31>>, DMR |-> <<4, 46>>, OLM |-> <<19, 34>>, ZO |-> <<23, 28>>, ORM |-> <<11, 7>>,
     STZ |-> <<9>>]
match_dussel_pauli_guest ==
    [DLM |-> <<23>>, HR |-> <<7>>, DRM |-> <<2, 19>>, HL |-> <<10, 11>>, STR |-> <<13, 27>>,
     TW |-> <<22>>, STL |-> <<14, 34>>, IVZ |-> <<8>>, DMZ |-> <<20, 24>>, IVR |-> <<25>>,
     IVL |-> <<5>>]
match_dussel_klautern_guest ==
    [TW |-> <<1>>, LV |-> <<20, 5>>, IVL |-> <<2>>, RV |-> <<37>>, IVR |-> <<32>>,
     DML |-> <<6, 25>>, DMR |-> <<7>>, OLM |-> <<11, 19>>, ZO |-> <<28, 10>>, ORM |-> <<8>>,
     STZ |-> <<13, 27>>]

match_where_away_team_starts_on_right == "Fortuna Düsseldorf:1. FC Kaiserslautern"

match_title_to_players_with_subs ==
    ("1. FC Köln:FC Bayern München" :>
        [home |-> match_bayern_koln_home, away |-> match_bayern_koln_away])
 @@ ("VfL Bochum 1848:Bayer 04 Leverkusen" :> [away |-> match_bochum_leverkusen_away])
 @@ ("Fortuna Düsseldorf:FC St. Pauli" :> [away |-> match_dussel_pauli_guest])
 @@ (match_where_away_team_starts_on_right :> [away |-> match_dussel_klautern_guest])
 @@ ("Fortuna Düsseldorf:1. FC Nürnberg" :> [home |-> match_dussel_nurnberg_home])
 @@ ("Fortuna Düsseldorf:SSV Jahn Regensburg" :>
        [home |-> match_dussel_regensburg_home, away |-> match_dussel_regensburg_away])
 @@ ("Fortuna Düsseldorf:F.C. Hansa Rostock" :>
        [home |-> match_dussel_hansa_home, away |-> match_dussel_hansa_guest])

\* lines 80-88: every slot keeps its first shirt only
get_starting_players(players_dict) ==
    [key \in DOMAIN players_dict |->
        [t \in DOMAIN players_dict[key] |->
            [pos \in DOMAIN players_dict[key][t] |-> <<players_dict[key][t][pos][1]>>]]]

match_title_to_players == get_starting_players(match_title_to_players_with_subs)

\* team.lower()
Lower(t) == IF t = "Home" THEN "home" ELSE IF t = "Away" THEN "away" ELSE t


(***************************************************************************)
(* Arguments of process_xy.                                                *)
(***************************************************************************)
MatchTitles == DOMAIN match_title_to_players_with_subs \cup {"SC Paderborn 07:Hamburger SV"}

RECURSIVE Ascending(_)
\* the numbers of S in ascending order
Ascending(S) ==
    IF S = {} THEN <<>>
    ELSE LET m == CHOOSE x \in S : \A y \in S : x <= y
         IN  <<m>> \o Ascending(S \ {m})

ShirtsOf(slot_map) ==
    UNION {{slot_map[pos][i] : i \in 1..Len(slot_map[pos])} : pos \in DOMAIN slot_map}

\* teamsheets a match can come with: the squad of the roster table by shirt number,
\* and a squad the roster table does not describe
ProcTeamsheets(title, t) ==
    {[i \in 1..11 |-> i]}
    \cup (IF title \in DOMAIN match_title_to_players_with_subs
             /\ Lower(t) \in DOMAIN match_title_to_players_with_subs[title]
          THEN {Ascending(ShirtsOf(match_title_to_players_with_subs[title][Lower(t)]))}
          ELSE {})

\* frames of a tracking array of n players: a player off the pitch is NaN
ProcFrames(t, n) == {Row(t, 2 * n, 0..(k - 1), NaN) : k \in 0..MaxMissing}

RECURSIVE FrameSeqs(_, _, _)
\* the frame sequences of at most len frames, numbered from t
FrameSeqs(t, len, n) ==
    IF len = 0 THEN {<<>>}
    ELSE {<<>>} \cup {<<f>> \o rest : f \in ProcFrames(t, n), rest \in FrameSeqs(t + 1, len - 1, n)}

InitDirect ==
    /\ op \in {"permute_xy", "permute_xy_with_subs"}
    /\ fn = op
    /\ pc = "start"
    /\ err = ""
    /\ formation \in Formations
    /\ shirt_to_index \in Teamsheets
    /\ position_to_shirt \in SlotMaps
    /\ default_permutations \in {"None", "def_perm"}
    /\ xy = <<>>
    /\ ordered_indices = <<>>
    /\ result = <<>>
    /\ base_indices = <<>>
    /\ xy_objects_arg = [firstHalf |-> <<>>, secondHalf |-> <<>>]
    /\ xy_objects = xy_objects_arg
    /\ teamsheet = <<>>
    /\ match_title = ""
    /\ team = ""
    /\ include_substitutes = FALSE
    /\ half = ""
    /\ p_result = <<>>
    /\ consulted = FALSE
    /\ xy_data = <<>>
    /\ pitch_xlim = <<0, 0>>
    /\ pitch_ylim = <<0, 0>>
    /\ bin_size = 0
    /\ count_matrix = <<>>
    /\ x_bins = <<>>
    /\ y_bins = <<>>
    /\ counted = 0
    /\ B = <<>>
    /\ grid_shape = <<0, 0>>
    /\ threshold = None
    /\ top_k = None
    /\ percentile = None
    /\ heatmaps = <<>>
    /\ ret = <<>>

InitProcess ==
    /\ op = "process_xy"
    /\ fn = op
    /\ pc = "start"
    /\ err = ""
    /\ formation \in Formations
    /\ match_title \in MatchTitles
    /\ team \in {"Home", "Away"}
    /\ include_substitutes \in BOOLEAN
    /\ teamsheet \in ProcTeamsheets(match_title, team)
    /\ xy_objects_arg \in
         {[firstHalf |-> f, secondHalf |-> s] :
             f \in FrameSeqs(0, MaxHalfFrames, Len(teamsheet)),
             s \in FrameSeqs(10, MaxHalfFrames, Len(teamsheet))}
    /\ xy_objects = xy_objects_arg
    /\ shirt_to_index = <<>>
    /\ position_to_shirt = <<>>
    /\ default_permutations = "None"
    /\ xy = <<>>
    /\ ordered_indices = <<>>
    /\ result = <<>>
    /\ base_indices = <<>>
    /\ half = ""
    /\ p_result = <<>>
    /\ consulted = FALSE
    /\ xy_data = <<>>
    /\ pitch_xlim = <<0, 0>>
    /\ pitch_ylim = <<0, 0>>
    /\ bin_size = 0
    /\ count_matrix = <<>>
    /\ x_bins = <<>>
    /\ y_bins = <<>>
    /\ counted = 0
    /\ B = <<>>
    /\ grid_shape = <<0, 0>>
    /\ threshold = None
    /\ top_k = None
    /\ percentile = None
    /\ heatmaps = <<>>
    /\ ret = <<>>

(***************************************************************************)
(* The row source of a permutation: a direct caller passes any frames; in  *)
(* process_xy the rows are those of the half's tracking array.             *)
(***************************************************************************)
HasNextRow ==
    IF op = "process_xy" THEN Len(xy) < Len(xy_objects[half]) ELSE Len(xy) < MaxFrames

NextRows ==
    IF op = "process_xy" THEN {xy_objects[half][Len(xy) + 1]}
    ELSE Frames(Len(xy), Len(shirt_to_index))

NoMoreRows == op = "process_xy" => Len(xy) = Len(xy_objects[half])

(***************************************************************************)
(* permute_xy                                                              *)
(***************************************************************************)
\* lines 102-112
permute_xy_setup ==
    /\ fn = "permute_xy" /\ pc = "start"
    /\ LET e == SetupError(default_permutations, formation, shirt_to_index, position_to_shirt)
       IN  IF e # ""
           THEN /\ pc' = "error" /\ err' = e
                /\ UNCHANGED ordered_indices
           ELSE /\ pc' = "loop" /\ err' = ""
                /\ ordered_indices' = OrderedIndicesFixed(default_permutations, formation,
                                                          shirt_to_index, position_to_shirt)
    /\ result' = <<>>
    /\ UNCHANGED <<op, fn, formation, shirt_to_index, position_to_shirt, default_permutations,
                   xy, base_indices, process_vars, count_vars, heat_vars, ret>>

\* lines 113-118: the next row of xy
permute_xy_row ==
    /\ fn = "permute_xy" /\ pc = "loop"
    /\ HasNextRow
    /\ \E row \in NextRows :
        /\ xy' = Append(xy, row)
        /\ IF FixedRowIndexError(row, ordered_indices)
           THEN /\ pc' = "error" /\ err' = "IndexError"
                /\ UNCHANGED <<result, base_indices>>
           ELSE /\ result' = Append(result, FixedNewRow(row, ordered_indices))
                /\ base_indices' = Append(base_indices, ordered_indices)
                /\ UNCHANGED <<pc, err>>
    /\ UNCHANGED <<op, fn, formation, shirt_to_index, position_to_shirt, default_permutations,
                   ordered_indices, process_vars, count_vars, heat_vars, ret>>

\* line 119, after the last row of xy
permute_xy_return ==
    /\ fn = "permute_xy" /\ pc = "loop"
    /\ NoMoreRows
    /\ pc' = IF op = fn THEN "done" ELSE "returned"
    /\ ret' = IF op = fn THEN result ELSE ret
    /\ UNCHANGED <<op, fn, err, permute_vars, process_vars, count_vars, heat_vars>>

(***************************************************************************)
(* permute_xy_with_subs                                                    *)
(***************************************************************************)
\* lines 123-136
permute_xy_with_subs_setup ==
    /\ fn = "permute_xy_with_subs" /\ pc = "start"
    /\ LET e == SetupError(default_permutations, formation, shirt_to_index, position_to_shirt)
       IN  IF e # ""
           THEN /\ pc' = "error" /\ err' = e
                /\ UNCHANGED ordered_indices
           ELSE /\ pc' = "loop" /\ err' = ""
                /\ ordered_indices' = OrderedIndicesSubs(default_permutations, formation,
                                                         shirt_to_index, position_to_shirt)
    /\ result' = <<>>
    /\ UNCHANGED <<op, fn, formation, shirt_to_index, position_to_shirt, default_permutations,
                   xy, base_indices, process_vars, count_vars, heat_vars, ret>>

\* lines 137-146: the next row of xy
permute_xy_with_subs_row ==
    /\ fn = "permute_xy_with_subs" /\ pc = "loop"
    /\ HasNextRow
    /\ \E row \in NextRows :
        /\ xy' = Append(xy, row)
        /\ LET r == SubsRow(row, ordered_indices)
           IN  /\ ordered_indices' = r.queues
               /\ IF r.err # ""
                  THEN /\ pc' = "error" /\ err' = r.err
                       /\ UNCHANGED <<result, base_indices>>
                  ELSE /\ result' = Append(result, r.new_row)
                       /\ base_indices' = Append(base_indices, r.bases)
                       /\ UNCHANGED <<pc, err>>
    /\ UNCHANGED <<op, fn, formation, shirt_to_index, position_to_shirt, default_permutations,
                   process_vars, count_vars, heat_vars, ret>>

\* line 147, after the last row of xy
permute_xy_with_subs_return ==
    /\ fn = "permute_xy_with_subs" /\ pc = "loop"
    /\ NoMoreRows
    /\ pc' = IF op = fn THEN "done" ELSE "returned"
    /\ ret' = IF op = fn THEN result ELSE ret
    /\ UNCHANGED <<op, fn, err, permute_vars, process_vars, count_vars, heat_vars>>

(***************************************************************************)
(* process_xy                                                              *)
(***************************************************************************)
\* the half lines 151-160 rotate
RotatedHalf(title, t) ==
    IF title # match_where_away_team_starts_on_right
    THEN IF t = "Home" THEN "firstHalf" ELSE "secondHalf"
    ELSE IF t = "Away" THEN "firstHalf" ELSE "secondHalf"

\* XY.rotate(180) on one frame: a rotation by 180 degrees about the origin
\* negates both coordinates of a player; NaN stays NaN
Rotate180(row) == [c \in 1..Len(row) |-> IF row[c] = NaN THEN NaN ELSE 0 - row[c]]

RotateAll(rows) == [t \in 1..Len(rows) |-> Rotate180(rows[t])]

\* lines 151-160
process_xy_rotate ==
    /\ fn = "process_xy" /\ pc = "start"
    /\ xy_objects' = [xy_objects EXCEPT ![RotatedHalf(match_title, team)] = RotateAll(@)]
    /\ pc' = "rotated"
    /\ UNCHANGED <<op, fn, err, permute_vars, process_args, half, p_result, consulted, count_vars, heat_vars, ret>>

\* a variant that returns the second half before the first
Passthrough_SecondFirst(objs) == objs.secondHalf \o objs.firstHalf

\* line 175: the frames of both halves as lists
Passthrough(objs) == objs.firstHalf \o objs.secondHalf

\* line 162 false, line 175
process_xy_passthrough ==
    /\ fn = "process_xy" /\ pc = "rotated"
    /\ formation \notin DOMAIN DEFAULT_PERMUTATIONS_PER_FORMATION
    /\ ret' = Passthrough(xy_objects)
    /\ pc' = "done"
    /\ UNCHANGED <<op, fn, err, permute_vars, process_vars, count_vars, heat_vars>>

\* match_title_to_players[match_title][team.lower()] raises KeyError
RosterKeyError(title, t) ==
    \/ title \notin DOMAIN match_title_to_players
    \/ Lower(t) \notin DOMAIN match_title_to_players[title]

\* the permutation lines 165-171 call
PermutationFor(subs) == IF subs THEN "permute_xy_with_subs" ELSE "permute_xy"

\* line 162 true, lines 163-166 or 170: the call for the first half
process_xy_first_half ==
    /\ fn = "process_xy" /\ pc = "rotated"
    /\ formation \in DOMAIN DEFAULT_PERMUTATIONS_PER_FORMATION
    /\ consulted' = TRUE
    /\ IF RosterKeyError(match_title, team)
       THEN /\ pc' = "error" /\ err' = "KeyError"
            /\ UNCHANGED <<fn, half, shirt_to_index, position_to_shirt>>
       ELSE /\ shirt_to_index' = teamsheet
            /\ position_to_shirt' = match_title_to_players[match_title][Lower(team)]
            /\ fn' = PermutationFor(include_substitutes)
            /\ half' = "firstHalf"
            /\ pc' = "start"
            /\ UNCHANGED err
    /\ UNCHANGED <<op, formation, default_permutations, xy, ordered_indices, result,
                   base_indices, process_args, xy_objects, p_result, count_vars, heat_vars, ret>>

\* lines 166-167 or 170-171: the first call returned, the call for the second half
process_xy_second_half ==
    /\ op = "process_xy" /\ pc = "returned" /\ half = "firstHalf"
    /\ p_result' = result
    /\ half' = "secondHalf"
    /\ pc' = "start"
    /\ xy' = <<>>
    /\ ordered_indices' = <<>>
    /\ result' = <<>>
    /\ base_indices' = <<>>
    /\ UNCHANGED <<op, fn, err, formation, shirt_to_index, position_to_shirt,
                   default_permutations, process_args, xy_objects, consulted, count_vars, heat_vars, ret>>

\* lines 167-168 or 171, and 173: result += the second call's result; return result
process_xy_return ==
    /\ op = "process_xy" /\ pc = "returned" /\ half = "secondHalf"
    /\ p_result' = p_result \o result
    /\ ret' = p_result \o result
    /\ fn' = "process_xy"
    /\ pc' = "done"
    /\ UNCHANGED <<op, err, permute_vars, process_args, xy_objects, half, consulted, count_vars, heat_vars>>

(***************************************************************************)
(* create_player_count_matrix (roles.py).  Coordinates, pitch limits and   *)
(* the bin size are whole numbers of one length unit; NaN and Inf are the  *)
(* floats of those names.                                                  *)
(***************************************************************************)
Inf == 3000000

\* stand-ins for the smallest and the largest int64, far outside every grid
MinInt == 0 - 2147483647
MaxInt == 2147483647

\* int(np.ceil(a / b)) for b > 0
CeilDiv(a, b) == 0 - ((0 - a) \div b)

\* the integer part of a / b for b > 0 (astype(int) truncates toward zero)
TruncDiv(a, b) == IF a >= 0 THEN a \div b ELSE 0 - ((0 - a) \div b)

\* ((v - lo) / bin_size).astype(int): the cast of an infinite float is not
\* defined; the builds produce the smallest or the largest int64
AsBin(v, lo, size) ==
    IF v = Inf THEN {MinInt, MaxInt} ELSE {TruncDiv(v - lo, size)}

\* a variant without the clamp
Clip_None(v, lo, hi) == v

\* np.clip(v, lo, hi)
Clip(v, lo, hi) == IF v < lo THEN lo ELSE IF v > hi THEN hi ELSE v

\* lines 50-51
NBins(lim, size) == CeilDiv(lim[2] - lim[1], size)

\* line 57: the mask of one row
IsValid(row) == row[1] # NaN /\ row[2] # NaN

\* line 58: xy_data[valid_mask]
SelectValid(rows) == SelectSeq(rows, IsValid)

\* lines 64-65: the bin indices of one axis for the valid rows
ClippedBin(v, lim, size) ==
    {Clip(raw, 0, NBins(lim, size) - 1) : raw \in AsBin(v, lim[1], size)}

BinsOf(valid, axis, lim, size) ==
    {b \in [1..Len(valid) -> UNION {ClippedBin(valid[i][axis], lim, size) : i \in 1..Len(valid)}] :
        \A i \in 1..Len(valid) : b[i] \in ClippedBin(valid[i][axis], lim, size)}

\* line 54: np.zeros((n_bins_y, n_bins_x))
Zeros(ny, nx) == [y \in 1..ny |-> [x \in 1..nx |-> 0]]

\* numpy maps an index i in -n..-1 to n + i; any other index outside 0..n-1 raises
NumpyIndexError(i, n) == i < 0 - n \/ i >= n
NumpyIndex(i, n) == IF i < 0 THEN n + i ELSE i

CoordsX == {NaN, Inf, 0 - 6, 5, 10}
CoordsY == {NaN, 0 - 6, 0, 5}

Pitches == {[x |-> <<0, 7>>, y |-> <<0 - 5, 5>>], [x |-> <<0, 10>>, y |-> <<0, 5>>]}

RECURSIVE Samples(_)
\* the coordinate series of at most len rows
Samples(len) ==
    IF len = 0 THEN {<<>>}
    ELSE {<<>>} \cup {<<<<x, y>>>> \o rest : x \in CoordsX, y \in CoordsY, rest \in Samples(len - 1)}

InitCount ==
    /\ op = "create_player_count_matrix"
    /\ fn = op
    /\ pc = "start"
    /\ err = ""
    /\ \E p \in Pitches : pitch_xlim = p.x /\ pitch_ylim = p.y
    /\ bin_size = 5
    /\ xy_data \in Samples(MaxSamples)
    /\ count_matrix = <<>>
    /\ x_bins = <<>>
    /\ y_bins = <<>>
    /\ counted = 0
    /\ formation = ""
    /\ shirt_to_index = <<>>
    /\ position_to_shirt = <<>>
    /\ default_permutations = "None"
    /\ xy = <<>>
    /\ ordered_indices = <<>>
    /\ result = <<>>
    /\ base_indices = <<>>
    /\ xy_objects_arg = [firstHalf |-> <<>>, secondHalf |-> <<>>]
    /\ xy_objects = xy_objects_arg
    /\ teamsheet = <<>>
    /\ match_title = ""
    /\ team = ""
    /\ include_substitutes = FALSE
    /\ half = ""
    /\ p_result = <<>>
    /\ consulted = FALSE
    /\ B = <<>>
    /\ grid_shape = <<0, 0>>
    /\ threshold = None
    /\ top_k = None
    /\ percentile = None
    /\ heatmaps = <<>>
    /\ ret = <<>>

\* lines 46-66; lines 60-61 return the zero matrix when no row is valid
create_player_count_matrix_bins ==
    /\ fn = "create_player_count_matrix" /\ pc = "start"
    /\ count_matrix' = Zeros(NBins(pitch_ylim, bin_size), NBins(pitch_xlim, bin_size))
    /\ IF SelectValid(xy_data) = <<>>
       THEN /\ pc' = "done"
            /\ ret' = count_matrix'
            /\ UNCHANGED <<x_bins, y_bins>>
       ELSE /\ x_bins' \in BinsOf(SelectValid(xy_data), 1, pitch_xlim, bin_size)
            /\ y_bins' \in BinsOf(SelectValid(xy_data), 2, pitch_ylim, bin_size)
            /\ pc' = "loop"
            /\ UNCHANGED ret
    /\ UNCHANGED <<op, fn, err, permute_vars, process_vars, heat_vars, count_args, counted>>

\* lines 68-69: one iteration
create_player_count_matrix_count ==
    /\ fn = "create_player_count_matrix" /\ pc = "loop"
    /\ counted < Len(x_bins)
    /\ LET x_bin == x_bins[counted + 1]
           y_bin == y_bins[counted + 1]
           ny == Len(count_matrix)
           nx == NBins(pitch_xlim, bin_size)
       IN  IF NumpyIndexError(y_bin, ny) \/ NumpyIndexError(x_bin, nx)
           THEN /\ pc' = "error" /\ err' = "IndexError"
                /\ UNCHANGED <<count_matrix, counted>>
           ELSE /\ count_matrix' =
                      [count_matrix EXCEPT ![NumpyIndex(y_bin, ny) + 1][NumpyIndex(x_bin, nx) + 1] = @ + 1]
                /\ counted' = counted + 1
                /\ UNCHANGED <<pc, err>>
    /\ UNCHANGED <<op, fn, permute_vars, process_vars, heat_vars, count_args, x_bins, y_bins, ret>>

\* line 71
create_player_count_matrix_return ==
    /\ fn = "create_player_count_matrix" /\ pc = "loop"
    /\ counted = Len(x_bins)
    /\ pc' = "done"
    /\ ret' = count_matrix
    /\ UNCHANGED <<op, fn, err, permute_vars, process_vars, count_vars, heat_vars>>

(***************************************************************************)
(* get_role_heatmaps (roles.py).  A heatmap is a list of grid rows; the    *)
(* entries the filter drops become NaN.                                    *)
(***************************************************************************)

\* line 342: B[k, :].reshape(grid_shape) raises ValueError when the sizes differ
ReshapeError(row, shape) == Len(row) # shape[1] * shape[2]

\* line 342: the row in C order, shape[1] rows of shape[2] bins
Reshape(row, shape) ==
    [y \in 1..shape[1] |-> [x \in 1..shape[2] |-> row[(y - 1) * shape[2] + x]]]

\* the value at 0-based position i of the sorted values of flat
SortedAt(flat, i) ==
    CHOOSE v \in {flat[j] : j \in 1..Len(flat)} :
        /\ Cardinality({j \in 1..Len(flat) : flat[j] < v}) <= i
        /\ i < Cardinality({j \in 1..Len(flat) : flat[j] <= v})

\* line 349: np.partition(flat, -top_k)[-top_k]; the element at position kth of
\* the partition is the one of the sorted array, and -0 is position 0
TopKThreshold(flat, k) == SortedAt(flat, NumpyIndex(0 - k, Len(flat)))

\* line 353: np.percentile(a, q) without interpolation: q = 0 is the minimum of
\* a and q = 100 its maximum (the calls drawn by InitHeatmap use no other q)
Percentile(a, q) ==
    CHOOSE v \in a : \A w \in a : IF q = 0 THEN v <= w ELSE v >= w

\* line 353
PercentileThreshold(flat, q) ==
    LET positive == {flat[j] : j \in {i \in 1..Len(flat) : flat[i] > 0}}
    IN  IF positive # {} THEN Percentile(positive, q) ELSE 0

\* lines 350, 354, 357: heatmap[heatmap < v] = np.nan (no comparison with NaN holds)
BelowToNaN(heatmap, v) ==
    [y \in DOMAIN heatmap |->
        [x \in DOMAIN heatmap[y] |->
            IF heatmap[y][x] # NaN /\ heatmap[y][x] < v THEN NaN ELSE heatmap[y][x]]]

\* lines 345-357: the filter of one heatmap
Filtered(heatmap, thr, k, q) ==
    LET flat == Flatten(heatmap)
    IN  IF k # None
        THEN IF k < Len(flat) THEN BelowToNaN(heatmap, TopKThreshold(flat, k)) ELSE heatmap
        ELSE IF q # None THEN BelowToNaN(heatmap, PercentileThreshold(flat, q))
        ELSE IF thr # None THEN BelowToNaN(heatmap, thr)
        ELSE heatmap

HeatValues == 0..2

GridShapes == {<<1, 3>>, <<2, 2>>}

RECURSIVE Matrices(_, _)
\* the matrices of 1 to n rows of len values
Matrices(n, len) ==
    IF n = 0 THEN {}
    ELSE {<<r>> : r \in [1..len -> HeatValues]}
         \cup {<<r>> \o m : r \in [1..len -> HeatValues], m \in Matrices(n - 1, len)}

\* the filter arguments of a call: one filter, none, or all three
Filters ==
    {[threshold |-> None, top_k |-> k, percentile |-> None] : k \in 0..MaxTopK}
    \cup {[threshold |-> None, top_k |-> None, percentile |-> q] : q \in {0, 100}}
    \cup {[threshold |-> t, top_k |-> None, percentile |-> None] : t \in {None, 1, 2}}
    \cup {[threshold |-> 1, top_k |-> 1, percentile |-> 0]}

InitHeatmap ==
    /\ op = "get_role_heatmaps"
    /\ fn = op
    /\ pc = "loop"
    /\ err = ""
    /\ B \in Matrices(MaxRoles, 3) \cup Matrices(MaxRoles, 4)
    /\ grid_shape \in GridShapes
    /\ \E f \in Filters :
          /\ threshold = f.threshold
          /\ top_k = f.top_k
          /\ percentile = f.percentile
    /\ heatmaps = <<>>
    /\ formation = ""
    /\ shirt_to_index = <<>>
    /\ position_to_shirt = <<>>
    /\ default_permutations = "None"
    /\ xy = <<>>
    /\ ordered_indices = <<>>
    /\ result = <<>>
    /\ base_indices = <<>>
    /\ xy_objects_arg = [firstHalf |-> <<>>, secondHalf |-> <<>>]
    /\ xy_objects = xy_objects_arg
    /\ teamsheet = <<>>
    /\ match_title = ""
    /\ team = ""
    /\ include_substitutes = FALSE
    /\ half = ""
    /\ p_result = <<>>
    /\ consulted = FALSE
    /\ xy_data = <<>>
    /\ pitch_xlim = <<0, 0>>
    /\ pitch_ylim = <<0, 0>>
    /\ bin_size = 0
    /\ count_matrix = <<>>
    /\ x_bins = <<>>
    /\ y_bins = <<>>
    /\ counted = 0
    /\ ret = <<>>

\* lines 341-359: one iteration of the loop over the roles
get_role_heatmaps_role ==
    /\ fn = "get_role_heatmaps" /\ pc = "loop"
    /\ Len(heatmaps) < Len(B)
    /\ LET row == B[Len(heatmaps) + 1]
       IN  IF ReshapeError(row, grid_shape)
           THEN /\ pc' = "error" /\ err' = "ValueError"
                /\ UNCHANGED heatmaps
           ELSE /\ heatmaps' =
                      Append(heatmaps, Filtered(Reshape(row, grid_shape), threshold, top_k, percentile))
                /\ UNCHANGED <<pc, err>>
    /\ UNCHANGED <<op, fn, permute_vars, process_vars, count_vars, heat_args, ret>>

\* line 360
get_role_heatmaps_return ==
    /\ fn = "get_role_heatmaps" /\ pc = "loop"
    /\ Len(heatmaps) = Len(B)
    /\ pc' = "done"
    /\ ret' = heatmaps
    /\ UNCHANGED <<op, fn, err, permute_vars, process_vars, count_vars, heat_vars>>

Init == InitDirect \/ InitProcess \/ InitCount \/ InitHeatmap

Next ==
    \/ permute_xy_setup
    \/ permute_xy_row
    \/ permute_xy_return
    \/ permute_xy_with_subs_setup
    \/ permute_xy_with_subs_row
    \/ permute_xy_with_subs_return
    \/ process_xy_rotate
    \/ process_xy_passthrough
    \/ process_xy_first_half
    \/ process_xy_second_half
    \/ process_xy_return
    \/ create_player_count_matrix_bins
    \/ create_player_count_matrix_count
    \/ create_player_count_matrix_return
    \/ get_role_heatmaps_role
    \/ get_role_heatmaps_return

Spec == Init /\ [][Next]_vars

(***************************************************************************)
(* Vocabulary of the properties.                                           *)
(***************************************************************************)
Permuting == fn \in {"permute_xy", "permute_xy_with_subs"}

\* the set-up of the executing permutation completed and no row raised
InLoopOrReturned == Permuting /\ pc \in {"loop", "returned", "done"}

\* the canonical slot ordering of the executing permutation
Slots == positions_of(default_permutations, formation)

\* every canonical slot has exactly one shirt
OneShirtPerSlot == \A i \in 1..Len(Slots) : Len(position_to_shirt[Slots[i]]) = 1

\* the tracking index of a shirt on the teamsheet
TrackingIndex(shirt) ==
    CHOOSE k \in 0..(Len(shirt_to_index) - 1) : shirt_to_index[k + 1] = shirt

\* the (x,y) pair of tracking index k in a frame
PairAt(row, k) == <<row[2 * k + 1], row[2 * k + 2]>>

\* the (x,y) pair at position i (1-based) of an output frame
OutPair(new_row, i) == <<new_row[2 * i - 1], new_row[2 * i]>>

\* the declared player count
Declared == Len(shirt_to_index)

(***************************************************************************)
(* C1.  Fixed mode: when every canonical slot has exactly one shirt, the   *)
(* output of permute_xy has one frame per input frame, in order, and the   *)
(* pair at position i of every output frame is the input frame's pair at   *)
(* the tracking index of the shirt of the i-th canonical slot; the index   *)
(* used for a slot is the same in every frame.                             *)
(***************************************************************************)
C1_FixedPermutation ==
    (fn = "permute_xy" /\ InLoopOrReturned /\ OneShirtPerSlot) =>
        /\ Len(result) = Len(xy)
        /\ \A t \in 1..Len(result) :
            /\ Len(result[t]) = 2 * Len(Slots)
            /\ \A i \in 1..Len(Slots) :
                /\ OutPair(result[t], i)
                     = PairAt(xy[t], TrackingIndex(position_to_shirt[Slots[i]][1]))
                /\ base_indices[t][i] = base_indices[1][i]

\* a returned run of the scenario's shape: two frames, reordered
C1_Witness ==
    /\ op = "permute_xy" /\ pc = "done" /\ OneShirtPerSlot
    /\ Len(ret) = 2
    /\ ret[1] # xy[1]
    /\ ret[2] # xy[2]

(***************************************************************************)
(* C2.  Substitution-aware mode: whenever a frame of the declared length   *)
(* is permuted and a slot's queue holds a candidate whose position in the  *)
(* frame is not the missing marker, the slot's output pair is the pair of  *)
(* the first such candidate (so it is not the missing marker), however     *)
(* many candidates at the head of the queue are missing in that frame.     *)
(***************************************************************************)
\* candidate k is on the pitch in the frame
ValidIn(row, k) == InRange(row, 2 * k + 1) /\ At(row, 2 * k) # None

HasValidCandidate(row, q) == \E j \in 1..Len(q) : ValidIn(row, q[j])

\* the first candidate of the queue that is on the pitch in the frame
FirstValidCandidate(row, q) ==
    q[CHOOSE j \in 1..Len(q) :
        /\ ValidIn(row, q[j])
        /\ \A h \in 1..(j - 1) : ~ValidIn(row, q[h])]

\* a step of the loop of permute_xy_with_subs that appended a row
SubsRowAppended ==
    /\ fn = "permute_xy_with_subs" /\ pc = "loop"
    /\ Len(result') = Len(result) + 1

C2_FirstValidCandidate ==
    [][SubsRowAppended =>
        LET row == xy'[Len(xy')]
            new_row == result'[Len(result')]
        IN  Len(row) = 2 * Declared =>
              \A i \in 1..Len(ordered_indices) :
                  HasValidCandidate(row, ordered_indices[i]) =>
                      /\ OutPair(new_row, i)
                           = PairAt(row, FirstValidCandidate(row, ordered_indices[i]))
                      /\ new_row[2 * i - 1] # None]_vars

(***************************************************************************)
(* C3.  Within one run of permute_xy_with_subs the queue position a slot   *)
(* reads at never decreases from one frame to a later one, and a frame     *)
(* never outputs for a slot the coordinates of a candidate the slot's      *)
(* queue had advanced past in an earlier frame, also when that candidate   *)
(* is on the pitch again.                                                  *)
(***************************************************************************)
\* the queues the run started with
InitialQueues ==
    OrderedIndicesSubs(default_permutations, formation, shirt_to_index, position_to_shirt)

\* position (1-based) of tracking index k in the initial queue of slot i
QueuePosition(i, k) == CHOOSE j \in 1..Len(InitialQueues[i]) : InitialQueues[i][j] = k

C3_NeverReselected ==
    (fn = "permute_xy_with_subs" /\ InLoopOrReturned) =>
        \A i \in 1..Len(ordered_indices) :
            \A t1 \in 1..Len(result) : \A t2 \in (t1 + 1)..Len(result) :
                /\ QueuePosition(i, base_indices[t1][i]) <= QueuePosition(i, base_indices[t2][i])
                /\ \A j \in 1..(QueuePosition(i, base_indices[t1][i]) - 1) :
                       ValidIn(xy[t2], InitialQueues[i][j]) =>
                           OutPair(result[t2], i) # PairAt(xy[t2], InitialQueues[i][j])

\* the head was missing in frame 1 and is on the pitch again in frame 2, where the
\* slot outputs the substitute
C3_Witness ==
    /\ op = "permute_xy_with_subs" /\ pc = "done" /\ Len(ret) = 2
    /\ \E i \in 1..Len(ordered_indices) :
        /\ QueuePosition(i, base_indices[1][i]) = 2
        /\ ValidIn(xy[2], InitialQueues[i][1])
        /\ OutPair(ret[2], i) = PairAt(xy[2], InitialQueues[i][2])

(***************************************************************************)
(* C4.  Substitution-aware mode: whenever the loop reads a frame in which  *)
(* some slot's queue holds no candidate with a valid position, the run     *)
(* aborts with an error; no frame is appended for it.                      *)
(***************************************************************************)
\* a step of the loop of permute_xy_with_subs that read a row
SubsRowRead ==
    /\ fn = "permute_xy_with_subs" /\ pc = "loop"
    /\ Len(xy') = Len(xy) + 1

C4_ExhaustedQueueAborts ==
    [][SubsRowRead =>
        ((\E i \in 1..Len(ordered_indices) :
              ~HasValidCandidate(xy'[Len(xy')], ordered_indices[i]))
            => (pc' = "error" /\ result' = result))]_vars

(***************************************************************************)
(* C5.  Fixed mode round trip.  The inverse of the slot permutation puts   *)
(* the pair at output position i back at tracking index ordered_indices[i] *)
(* of a frame of the original length; a tracking index that no slot reads  *)
(* has no pair in the output and is restored as missing.                   *)
(***************************************************************************)
Unpermute(new_row, oi, len) ==
    [p \in 1..len |->
        IF \E i \in 1..Len(oi) : oi[i] = (p - 1) \div 2
        THEN new_row[2 * (CHOOSE i \in 1..Len(oi) : oi[i] = (p - 1) \div 2) - 1 + ((p - 1) % 2)]
        ELSE None]

\* a valid slot map: one shirt per canonical slot, no shirt in two slots
ValidFixedConfig ==
    /\ OneShirtPerSlot
    /\ \A i, j \in 1..Len(Slots) :
           i # j => position_to_shirt[Slots[i]][1] # position_to_shirt[Slots[j]][1]

\* C5 as claimed: for every valid slot map and teamsheet, also a teamsheet with
\* more players than slots, permuting a frame and applying the inverse
\* reproduces the frame
C5_RoundTrip ==
    (fn = "permute_xy" /\ InLoopOrReturned /\ ValidFixedConfig) =>
        \A t \in 1..Len(result) :
            Len(xy[t]) = 2 * Declared =>
                Unpermute(result[t], ordered_indices, Len(xy[t])) = xy[t]

\* C5 as amended: the round trip reproduces every frame of the declared length
\* when the teamsheet lists exactly as many players as there are slots
C5_RoundTripSameCount ==
    (fn = "permute_xy" /\ InLoopOrReturned /\ ValidFixedConfig /\ Declared = Len(Slots)) =>
        \A t \in 1..Len(result) :
            Len(xy[t]) = 2 * Declared =>
                Unpermute(result[t], ordered_indices, Len(xy[t])) = xy[t]

\* a frame that the permutation reordered and the inverse restored
C5_Witness ==
    /\ op = "permute_xy" /\ pc = "done" /\ ValidFixedConfig /\ Declared = Len(Slots)
    /\ Len(ret) >= 1
    /\ Len(xy[1]) = 2 * Declared
    /\ ret[1] # xy[1]
    /\ Unpermute(ret[1], ordered_indices, Len(xy[1])) = xy[1]

(***************************************************************************)
(* C6.  Frames whose length is not twice the declared player count.        *)
(***************************************************************************)
DirectPermutation == op = fn /\ Permuting

\* every canonical slot has a shirt
NoEmptySlot == \A i \in 1..Len(Slots) : Len(position_to_shirt[Slots[i]]) >= 1

\* C6 as claimed: a frame of another length than twice the declared player
\* count makes the direct call abort
C6_LengthMismatchAborts ==
    (DirectPermutation /\ InLoopOrReturned /\ NoEmptySlot) =>
        \A t \in 1..Len(xy) : Len(xy[t]) # 2 * Declared => pc = "error"

\* the 0-based columns of the frame that lines 141-145 subscript for a slot whose
\* queue is q: the x of the head; when that is the missing marker, both
\* coordinates of the next candidate; otherwise the y of the head as well
SubsReads(row, q) ==
    IF ~InRange(row, 2 * q[1]) THEN {2 * q[1]}
    ELSE IF At(row, 2 * q[1]) = None
         THEN IF Len(q) >= 2 THEN {2 * q[1], 2 * q[2], 2 * q[2] + 1} ELSE {2 * q[1]}
    ELSE {2 * q[1], 2 * q[1] + 1}

\* the frame is too short for a value the slot reads
ShortRead(row, q) == q # <<>> /\ \E c \in SubsReads(row, q) : ~InRange(row, c)

\* the slot has no candidate left to read: its queue is empty, or its only
\* candidate carries the missing marker
Exhausted(row, q) ==
    \/ q = <<>>
    \/ Len(q) = 1 /\ InRange(row, 2 * q[1]) /\ At(row, 2 * q[1]) = None

\* C6 as amended.  permute_xy aborts with IndexError exactly when a frame it read
\* is too short to hold the pair of a tracking index of the permutation.
\* permute_xy_with_subs aborts with IndexError, appending nothing, on every frame
\* that is too short for a value one of its slots reads, and it aborts on no
\* other frame unless a queue has no candidate left; otherwise it appends the
\* frame's permutation, whatever the frame's length.  An aborted call returns
\* nothing, and in both modes every pair of every appended frame was read
\* inside its input frame.
C6_ShortFrameAborts ==
    /\ [](/\ (DirectPermutation /\ fn = "permute_xy") =>
                ((err = "IndexError") <=>
                    (\E t \in 1..Len(xy) : \E i \in 1..Len(ordered_indices) :
                         Len(xy[t]) < 2 * ordered_indices[i] + 2))
          /\ (DirectPermutation /\ pc = "error") => ret = <<>>
          /\ DirectPermutation =>
                \A t \in 1..Len(result) : \A i \in 1..Len(base_indices[t]) :
                    /\ Len(xy[t]) >= 2 * base_indices[t][i] + 2
                    /\ OutPair(result[t], i) = PairAt(xy[t], base_indices[t][i]))
    /\ [][SubsRowRead =>
            LET row == xy'[Len(xy')]
                short == \E i \in 1..Len(ordered_indices) : ShortRead(row, ordered_indices[i])
                spent == \E i \in 1..Len(ordered_indices) : Exhausted(row, ordered_indices[i])
            IN  /\ short => (pc' = "error" /\ err' = "IndexError" /\ result' = result)
                /\ pc' = "error" => (short \/ spent)
                /\ pc' # "error" => Len(result') = Len(result) + 1]_vars

\* a direct call of permute_xy_with_subs that permuted a frame one pair shorter
\* than declared and then aborted on a frame one value shorter than declared:
\* the head of a queue is missing in it and the frame cannot hold the y of the
\* next candidate
C6_Witness ==
    /\ op = "permute_xy_with_subs" /\ pc = "error" /\ err = "IndexError"
    /\ Len(xy) = 2 /\ Len(result) = 1 /\ ret = <<>>
    /\ Len(xy[1]) = 2 * Declared - 2
    /\ Len(xy[2]) = 2 * Declared - 1
    /\ \E i \in 1..Len(InitialQueues) :
          /\ Len(InitialQueues[i]) = 2
          /\ base_indices[1][i] = InitialQueues[i][1]
          /\ At(xy[2], 2 * InitialQueues[i][1]) = None
          /\ InRange(xy[2], 2 * InitialQueues[i][2])
          /\ ~InRange(xy[2], 2 * InitialQueues[i][2] + 1)
          /\ \A h \in 1..(i - 1) : ~ShortRead(xy[2], InitialQueues[h])
                                  /\ ~Exhausted(xy[2], InitialQueues[h])

(***************************************************************************)
(* C7.  A direct call whose formation is known aborts in its set-up when   *)
(* the slot map names a shirt that is not on the teamsheet, has an entry   *)
(* for a slot that the canonical ordering does not list, or has no entry   *)
(* for a canonical slot.                                                   *)
(***************************************************************************)
InconsistentConfig ==
    \/ \E pos \in DOMAIN position_to_shirt : \E i \in 1..Len(position_to_shirt[pos]) :
           ~Contains(shirt_to_index, position_to_shirt[pos][i])
    \/ \E pos \in DOMAIN position_to_shirt : ~Contains(Slots, pos)
    \/ \E i \in 1..Len(Slots) : Slots[i] \notin DOMAIN position_to_shirt

C7_InconsistentConfigAborts ==
    (DirectPermutation /\ ~FormationKeyError(default_permutations, formation)
        /\ InconsistentConfig) => (pc # "done" /\ result = <<>>)

(***************************************************************************)
(* C8.  process_xy in fixed mode with a formation outside the supported    *)
(* set returns the first-half frames followed by the second-half frames,   *)
(* every frame as long as its input frame and every column holding the     *)
(* input's column (as passed, or rotated by 180 degrees), without          *)
(* subscripting the roster tables.                                         *)
(***************************************************************************)
\* v is the value w of the same column, as passed or rotated
SameColumn(v, w) == v = w \/ (w # NaN /\ v = 0 - w)

Unsupported == formation \notin DOMAIN DEFAULT_PERMUTATIONS_PER_FORMATION

C8_UnsupportedPassthrough ==
    (op = "process_xy" /\ pc = "done" /\ ~include_substitutes /\ Unsupported) =>
        LET inp == xy_objects_arg.firstHalf \o xy_objects_arg.secondHalf
        IN  /\ Len(ret) = Len(inp)
            /\ \A t \in 1..Len(ret) :
                /\ Len(ret[t]) = Len(inp[t])
                /\ \A c \in 1..Len(ret[t]) : SameColumn(ret[t][c], inp[t][c])
            /\ ~consulted

\* a returned call with frames in both halves for a match the roster tables lack
C8_Witness ==
    /\ op = "process_xy" /\ pc = "done" /\ ~include_substitutes /\ Unsupported
    /\ match_title \notin DOMAIN match_title_to_players
    /\ xy_objects_arg.firstHalf # <<>>
    /\ xy_objects_arg.secondHalf # <<>>
    /\ Len(ret) = Len(xy_objects_arg.firstHalf) + Len(xy_objects_arg.secondHalf)

(***************************************************************************)
(* C9.  process_xy with include_substitutes and a formation outside the    *)
(* supported set fails; it does not return frames.                         *)
(***************************************************************************)
C9_SubsUnsupportedFails ==
    (op = "process_xy" /\ include_substitutes /\ Unsupported) => pc # "done"

(***************************************************************************)
(* C10.  create_player_count_matrix never addresses a bin outside          *)
(* 0..n_bins-1 on either axis and raises nothing; it counts exactly the    *)
(* rows in which neither coordinate is NaN, each once, so the counts of    *)
(* the returned matrix sum to the number of such rows.                     *)
(***************************************************************************)
RECURSIVE SumSeq(_)
SumSeq(q) == IF q = <<>> THEN 0 ELSE Head(q) + SumSeq(Tail(q))

SumMatrix(m) == SumSeq([y \in 1..Len(m) |-> SumSeq(m[y])])

\* the rows of xy_data with two valid coordinates
ValidRows == {i \in 1..Len(xy_data) : xy_data[i][1] # NaN /\ xy_data[i][2] # NaN}

C10_BinsInRangeAndCounted ==
    (op = "create_player_count_matrix") =>
        /\ pc # "error"
        /\ \A i \in 1..Len(x_bins) :
            /\ x_bins[i] \in 0..(NBins(pitch_xlim, bin_size) - 1)
            /\ y_bins[i] \in 0..(NBins(pitch_ylim, bin_size) - 1)
        /\ pc = "loop" =>
            /\ Len(x_bins) = Cardinality(ValidRows)
            /\ Len(y_bins) = Cardinality(ValidRows)
            /\ SumMatrix(count_matrix) = counted
        /\ pc = "done" => SumMatrix(ret) = Cardinality(ValidRows)

\* a returned call that skipped a row with a NaN and counted a row on or beyond
\* the pitch's upper x limit
C10_Witness ==
    /\ op = "create_player_count_matrix" /\ pc = "done"
    /\ Len(xy_data) = 2
    /\ \E i \in 1..2 : xy_data[i][2] = NaN /\ xy_data[i][1] # NaN
    /\ \E i \in 1..2 : i \in ValidRows /\ xy_data[i][1] >= pitch_xlim[2]
    /\ SumMatrix(ret) = 1

(***************************************************************************)
(* Vocabulary of the heatmap filters.                                      *)
(***************************************************************************)
\* the 1-based positions of the flattened heatmap that are not NaN
Kept(heatmap) == {j \in 1..Len(Flatten(heatmap)) : Flatten(heatmap)[j] # NaN}

\* the smaller of two integers
MinOf(a, b) == IF a < b THEN a ELSE b

\* the call returned and its filter was top_k
TopKReturned == op = "get_role_heatmaps" /\ pc = "done" /\ top_k # None

(***************************************************************************)
(* C11.  get_role_heatmaps with the top-K filter keeps only the K largest  *)
(* entries of each basis row: of a row of L bins exactly min(K, L) entries *)
(* of the returned heatmap are not NaN, they carry the row's values and    *)
(* no dropped entry is larger than a kept one, for every K >= 0, K = 0 and *)
(* ties with the K-th largest value included.  The code does not do this:  *)
(* it drops the entries strictly below the K-th largest value, so ties     *)
(* with that value are all kept, and for K = 0 the value it compares with  *)
(* is the minimum of the row, so nothing is dropped.                       *)
(***************************************************************************)
C11_TopKKeepsKLargest ==
    TopKReturned =>
        \A k \in 1..Len(ret) :
            LET row == B[k]
                flat == Flatten(ret[k])
                kept == Kept(ret[k])
            IN  /\ Cardinality(kept) = MinOf(top_k, Len(row))
                /\ \A j \in kept : flat[j] = row[j]
                /\ \A j \in kept : \A i \in (1..Len(row)) \ kept : row[i] <= row[j]

(***************************************************************************)
(* Vocabulary of the substitution-aware runs of process_xy.                *)
(***************************************************************************)
\* process_xy called permute_xy_with_subs and its setup passed
SubsProcessRunning ==
    /\ op = "process_xy" /\ include_substitutes
    /\ formation \in DOMAIN DEFAULT_PERMUTATIONS_PER_FORMATION
    /\ fn = "permute_xy_with_subs" /\ pc \in {"loop", "returned"}

\* the shirts the roster table lists for the i-th canonical slot: the primary
\* followed by the substitutes
RosterShirts(i) == match_title_to_players_with_subs[match_title][Lower(team)][Slots[i]]

\* the shirts of the roster table that are on the teamsheet, as tracking indices
RosterCandidates(i) ==
    LET listed == SelectSeq(RosterShirts(i), LAMBDA sh : Contains(teamsheet, sh))
    IN  [j \in 1..Len(listed) |-> ListIndex(teamsheet, listed[j])]

\* the player of tracking index k has no position in the frame
MissingIn(row, k) == PairAt(row, k)[1] \in {None, NaN}

\* the substitutes of slot i that have a position in the frame, in roster order
ValidSubstitutes(row, i) ==
    SelectSeq(Tail(RosterCandidates(i)), LAMBDA k : ~MissingIn(row, k))

(***************************************************************************)
(* C12.  When process_xy runs with include_substitutes true for a          *)
(* supported formation, the shirt list of every slot passed to the         *)
(* permutation is the roster table's list for that slot, primary first     *)
(* and then every substitute in roster order; and an output frame whose    *)
(* input frame misses the primary of a slot while a listed substitute has  *)
(* a position carries the coordinates of the first such substitute in that *)
(* slot.  The code does not do this: line 164 reads                        *)
(* match_title_to_players, the table get_starting_players cut down to the  *)
(* primary of every slot, so no queue holds a substitute and the slot      *)
(* outputs the primary's NaN.                                              *)
(***************************************************************************)
C12_QueuesHoldSubstitutes ==
    SubsProcessRunning =>
        /\ \A i \in 1..Len(Slots) : position_to_shirt[Slots[i]] = RosterShirts(i)
        /\ \A t \in 1..Len(result) : \A i \in 1..Len(Slots) :
              (/\ MissingIn(xy[t], RosterCandidates(i)[1])
               /\ ValidSubstitutes(xy[t], i) # <<>>)
              => OutPair(result[t], i) = PairAt(xy[t], ValidSubstitutes(xy[t], i)[1])

(***************************************************************************)
(* Vocabulary of queue advancement: a queue advances past its head while   *)
(* the head has no position in the frame.                                  *)
(***************************************************************************)
\* the first position from pos on whose candidate has a position in the frame
\* (Len(q) + 1 when there is none)
SkipMissing(q, row, pos) ==
    CHOOSE p \in pos..(Len(q) + 1) :
        /\ p = Len(q) + 1 \/ ~MissingIn(row, q[p])
        /\ \A h \in pos..(p - 1) : MissingIn(row, q[h])

RECURSIVE AdvancedTo(_, _, _)
\* the position of the head of a queue that was at pos, after the frames
AdvancedTo(q, frames, pos) ==
    IF frames = <<>> THEN pos
    ELSE AdvancedTo(q, Tail(frames), SkipMissing(q, Head(frames), pos))

\* process_xy returned from a substitution-aware run of a supported formation
SubsProcessDone ==
    /\ op = "process_xy" /\ pc = "done" /\ include_substitutes
    /\ formation \in DOMAIN DEFAULT_PERMUTATIONS_PER_FORMATION

(***************************************************************************)
(* C13.  In process_xy with include_substitutes true, queue advancement    *)
(* persists across the two halves: a candidate of a slot that the slot's   *)
(* queue (the roster's primary and substitutes, C12) advanced past during  *)
(* the first half, a later candidate taking over, is not the player whose  *)
(* coordinates the slot carries in any second-half frame of the returned   *)
(* list, even where that candidate has a position in the frame.  The code  *)
(* does not do this: the queues never advance past the primary (C12), and  *)
(* the call for the second half builds its queues anew.                    *)
(***************************************************************************)
C13_AdvancementPersists ==
    SubsProcessDone =>
        LET first == xy_objects.firstHalf
            second == xy_objects.secondHalf
        IN  \A i \in 1..Len(Slots) :
                LET q == RosterCandidates(i)
                    head == AdvancedTo(q, first, 1)
                IN  head <= Len(q) =>
                        \A j \in 1..(head - 1) : \A t \in 1..Len(second) :
                            ~MissingIn(second[t], q[j]) =>
                                OutPair(ret[Len(first) + t], i) # PairAt(second[t], q[j])

(***************************************************************************)
(* Vocabulary of the roster tables.                                        *)
(***************************************************************************)
\* the shirts a slot map lists for a slot
ShirtsAt(p2s, pos) == {p2s[pos][j] : j \in 1..Len(p2s[pos])}

\* no shirt number appears in two different slots
NoSharedShirt(p2s) ==
    \A a \in DOMAIN p2s : \A b \in DOMAIN p2s :
        a # b => ShirtsAt(p2s, a) \cap ShirtsAt(p2s, b) = {}

\* every slot name belongs to one canonical slot ordering
OneCanonicalOrdering(p2s) ==
    \E f \in DOMAIN DEFAULT_PERMUTATIONS_PER_FORMATION :
        \A pos \in DOMAIN p2s : Contains(DEFAULT_PERMUTATIONS_PER_FORMATION[f], pos)

\* no tracking index is a candidate in two queues
DisjointQueues(queues) ==
    \A a \in 1..Len(queues) : \A b \in 1..Len(queues) :
        a # b => \A j \in 1..Len(queues[a]) : ~Contains(queues[b], queues[a][j])

(***************************************************************************)
(* C14.  The slot map (primary plus substitutes) the roster tables hold    *)
(* for the match and team of a call of process_xy satisfies the            *)
(* FormationSlotMap invariant: no shirt number appears in two different    *)
(* slots, and every slot name belongs to one canonical slot ordering; and  *)
(* in a substitution-aware run no tracking index is a candidate in the     *)
(* queues of two slots.  The tables do not satisfy this: the away team's   *)
(* map of "1. FC Köln:FC Bayern München" lists shirt 40 as the primary of  *)
(* LV and as a substitute of ORM.                                          *)
(***************************************************************************)
C14_RosterSlotMapInvariant ==
    (op = "process_xy" /\ ~RosterKeyError(match_title, team)) =>
        /\ NoSharedShirt(match_title_to_players_with_subs[match_title][Lower(team)])
        /\ OneCanonicalOrdering(match_title_to_players_with_subs[match_title][Lower(team)])
        /\ SubsProcessRunning => DisjointQueues(InitialQueues)

====
